---------------------------- MODULE Spec2Model ----------------------------
(***************************************************************************)
(* A model of zsh/.local/bin/filesizehistogram.py: the pipeline            *)
(*   argv check -> open -> read lines -> bucket edges -> statistics ->     *)
(*   np.histogram -> bar chart                                             *)
(* and of its pure formatter numfmt.                                       *)
(*                                                                         *)
(* Numbers.  The script works on Python ints and numpy int64; the edge     *)
(* 2**31 and the sizes above it do not fit the model checker's 32-bit      *)
(* integers, so every program integer is kept as a pair <<hi, lo>> that    *)
(* stands for hi * 2^30 + lo with 0 <= lo < 2^30 (hi may be negative).     *)
(* Strings are sequences of one-character strings.                         *)
(***************************************************************************)
EXTENDS Integers, Sequences, FiniteSets

VARIABLES argv, input, pc, handle, pos, data, error,
          maxdatalog2, bins, median, mean, bmedian, bmean, files, total,
          hist, ticklabels, vlines, fin, fout

vars == <<argv, input, pc, handle, pos, data, error,
          maxdatalog2, bins, median, mean, bmedian, bmean, files, total,
          hist, ticklabels, vlines, fin, fout>>

(***************************************************************************)
(* Bounds of the model.                                                    *)
(***************************************************************************)
\* the input file has at most MaxLines lines
MaxLines == 3
\* numfmt is applied to c * 1024^j + d for c in 1..FmtMult (and c = 1023),
\* |d| <= FmtSpread
FmtMult == 2
FmtSpread == 2

(***************************************************************************)
(* Integer arithmetic on <<hi, lo>> pairs.                                 *)
(***************************************************************************)
Limb == 2^30

Zero == <<0, 0>>

\* the pair of a small integer, -2^30 < n < 2^30
Small(n) == <<n \div Limb, n % Limb>>

Add(a, b) ==
    LET s == a[2] + b[2]
    IN  <<a[1] + b[1] + (s \div Limb), s % Limb>>

Lt(a, b) == a[1] < b[1] \/ (a[1] = b[1] /\ a[2] < b[2])

Le(a, b) == a = b \/ Lt(a, b)

\* a * n for a small natural n
RECURSIVE Times(_, _)
Times(a, n) == IF n = 0 THEN Zero ELSE Add(a, Times(a, n - 1))

\* 2 ** x for x in 0..60
Pow2(x) == IF x < 30 THEN <<0, 2^x>> ELSE <<2^(x - 30), 0>>

\* a // 10 and a % 10 (floor division), used by the decimal rendering
FloorDiv10(a) ==
    LET r == a[1] % 10
        t == r * (Limb % 10) + a[2]
    IN  <<a[1] \div 10, r * (Limb \div 10) + (t \div 10)>>

Mod10(a) == ((a[1] % 10) * (Limb % 10) + a[2]) % 10


Neg(a) == IF a[2] = 0 THEN <<-a[1], 0>> ELSE <<-a[1] - 1, Limb - a[2]>>

(***************************************************************************)
(* Strings: str(int), int(str), split, slices.                             *)
(***************************************************************************)
Digits == <<"0", "1", "2", "3", "4", "5", "6", "7", "8", "9">>

Whitespace == {" ", "\n", "\t"}

\* the value of a digit character
DigitVal(c) == CHOOSE d \in 0..9 : Digits[d + 1] = c

IsDigit(c) == \E d \in 0..9 : Digits[d + 1] = c

\* f"{s}" of a Python int
RECURSIVE StrNat(_)
StrNat(a) ==
    IF Lt(a, Small(10)) THEN <<Digits[a[2] + 1]>>
    ELSE StrNat(FloorDiv10(a)) \o <<Digits[Mod10(a) + 1]>>

Str(a) == IF Lt(a, Zero) THEN <<"-">> \o StrNat(Neg(a)) ELSE StrNat(a)

\* x.split(' ')[0]: the characters before the first space
RECURSIVE FirstToken(_)
FirstToken(x) ==
    IF x = <<>> \/ Head(x) = " " THEN <<>>
    ELSE <<Head(x)>> \o FirstToken(Tail(x))

\* str.strip(), which int() applies to its argument
RECURSIVE LStrip(_)
LStrip(t) == IF t # <<>> /\ Head(t) \in Whitespace THEN LStrip(Tail(t)) ELSE t

RECURSIVE RStrip(_)
RStrip(t) ==
    IF t # <<>> /\ t[Len(t)] \in Whitespace THEN RStrip(SubSeq(t, 1, Len(t) - 1))
    ELSE t

Strip(t) == RStrip(LStrip(t))

\* the value of a string of decimal digits
RECURSIVE DigitsValue(_)
DigitsValue(ds) ==
    IF ds = <<>> THEN Zero
    ELSE Add(Times(DigitsValue(SubSeq(ds, 1, Len(ds) - 1)), 10),
             Small(DigitVal(ds[Len(ds)])))

\* int(t) over the alphabet of decimal digits, signs, letters and whitespace:
\* [ok |-> FALSE] is ValueError
ParseInt(t) ==
    LET s      == Strip(t)
        signed == s # <<>> /\ s[1] \in {"+", "-"}
        body   == IF signed THEN Tail(s) ELSE s
    IN  IF body = <<>> \/ \E i \in 1..Len(body) : ~IsDigit(body[i])
        THEN [ok |-> FALSE, val |-> Zero]
        ELSE [ok |-> TRUE,
              val |-> IF signed /\ s[1] = "-" THEN Neg(DigitsValue(body))
                      ELSE DigitsValue(body)]

\* seq[start:stop] of Python, 0-based, negative indices counted from the end
PySlice(seq, start, stop) ==
    LET n    == Len(seq)
        Norm(i) == IF i < 0 THEN (IF i + n < 0 THEN 0 ELSE i + n)
                   ELSE (IF i > n THEN n ELSE i)
    IN  SubSeq(seq, Norm(start) + 1, Norm(stop))

(***************************************************************************)
(* numfmt(s) for an int s (type(s) is float is False).                     *)
(***************************************************************************)
marks == <<"K", "M", "G", "T", "P">>

Kibi == 1024

\* s //= 1024
FloorDiv1024(s) ==
    <<s[1] \div Kibi, (s[1] % Kibi) * (Limb \div Kibi) + (s[2] \div Kibi)>>

\* the loop condition with > for >=
LoopCond_Strict(s, m) == Lt(Small(Kibi), s) /\ m < Len(marks)

\* while s >= 1024 and m < len(marks)
LoopCond(s, m) == Le(Small(Kibi), s) /\ m < Len(marks)

\* the loop of numfmt: <<s, m>> when it ends
RECURSIVE NumfmtLoop(_, _)
NumfmtLoop(s, m) ==
    IF LoopCond(s, m) THEN NumfmtLoop(FloorDiv1024(s), m + 1) ELSE <<s, m>>

numfmt(s) ==
    LET r == NumfmtLoop(s, 0)
    IN  Str(r[1]) \o PySlice(marks, r[2] - 1, r[2])

(***************************************************************************)
(* The input: sys.argv and the lines of the input file.                    *)
(***************************************************************************)
\* lines as "find -printf '%s %p\n'" writes them, and lines it never writes
SampleLines ==
    { <<"0", " ", "a", "\n">>,
      <<"1", " ", "b", "\n">>,
      <<"5", " ", "c", "\n">>,
      <<"3", "2", " ", "d", "\n">>,
      <<"3", "3", " ", "e", "\n">>,
      <<"1", "0", "0", "\n">>,
      <<"2", "1", "4", "7", "4", "8", "3", "6", "4", "8", " ", "f", "\n">>,
      <<"2", "1", "4", "7", "4", "8", "3", "6", "4", "9", " ", "g", "\n">>,
      <<"-", "5", " ", "h", "\n">>,
      <<"a", "b", "c", " ", "i", "\n">>,
      <<"\n">> }

Inputs == UNION {[1..n -> SampleLines] : n \in 0..MaxLines}

Argvs ==
    { <<"filesizehistogram.py">>,
      <<"filesizehistogram.py", "-">>,
      <<"filesizehistogram.py", "sizes.txt">>,
      <<"filesizehistogram.py", "missing.txt">> }

\* the paths open() finds
ExistingFiles == {"/dev/stdin", "sizes.txt"}

\* The file object of open(filename) is never closed by the script; it lives
\* as long as something refers to it.  When int() raises inside the list
\* comprehension the traceback may hold the comprehension's frame and with it
\* the file object (CPython before 3.12, where the file is still open in
\* sys.excepthook), or the unwinding may drop it (an inlined comprehension).
UnwoundHandle == {"open", "closed"}

(***************************************************************************)
(* Pure steps of the pipeline.                                             *)
(***************************************************************************)
\* data.max()
RECURSIVE MaxOf(_)
MaxOf(d) ==
    IF Len(d) = 1 THEN d[1]
    ELSE LET m == MaxOf(Tail(d)) IN IF Lt(m, d[1]) THEN d[1] ELSE m

\* data.sum()
RECURSIVE SumOf(_)
SumOf(d) == IF d = <<>> THEN Zero ELSE Add(d[1], SumOf(Tail(d)))

\* ceil(log2(v)) for v >= 1: the least k with v <= 2^k.  (math.log2 is exact
\* on powers of two and monotone, and below 2^32 a double tells 2^k + 1 from
\* 2^k; above, the result is at least 32 and the cut at 31 applies.)
CeilLog2(v) ==
    CHOOSE k \in 0..60 : Le(v, Pow2(k)) /\ (k = 0 \/ Lt(Pow2(k - 1), v))

mindatalog2 == 5

cutlog2 == 31

Min(a, b) == IF a < b THEN a ELSE b

\* [2**x for x in range(lo, hi)], empty when hi <= lo
PowersOfTwo(lo, hi) ==
    IF hi <= lo THEN <<>> ELSE [i \in 1..(hi - lo) |-> Pow2(lo + i - 1)]

\* [0,1,] + [2**x for x in range(mindatalog2, maxdatalog2 + 1)]
BinsOf(maxlog2) == <<Zero, Small(1)>> \o PowersOfTwo(mindatalog2, maxlog2 + 1)

\* np.sort
RECURSIVE Insert(_, _)
Insert(v, d) ==
    IF d = <<>> THEN <<v>>
    ELSE IF Le(v, d[1]) THEN <<v>> \o d
    ELSE <<d[1]>> \o Insert(v, Tail(d))

RECURSIVE Sorted(_)
Sorted(d) == IF d = <<>> THEN <<>> ELSE Insert(d[1], Sorted(Tail(d)))

\* A float is kept as the exact quotient <<num, den>>, den in 1..MaxLines + 1.
\* The doubles of the script are these quotients rounded; the rounding never
\* changes the outcome of a comparison with an edge, since an edge is a
\* double and a quotient that differs from it differs by at least 1 / den.
\* int < float
LtIntFloat(e, x) == Lt(Times(e, x[2]), x[1])

\* float < int
LtFloatInt(x, e) == Lt(x[1], Times(e, x[2]))

\* float <= int
LeFloatInt(x, e) == Le(x[1], Times(e, x[2]))

\* np.median(data): the middle element, or the mean of the two middle ones
MedianOf(d) ==
    LET s == Sorted(d)
        n == Len(d)
    IN  IF n % 2 = 1 THEN <<s[(n \div 2) + 1], 1>>
        ELSE <<Add(s[n \div 2], s[(n \div 2) + 1]), 2>>

\* data.mean()
MeanOf(d) == <<SumOf(d), Len(d)>>

\* bisect_left(a, x): lo = 0, hi = len(a), halving while lo < hi
RECURSIVE BisectLeft(_, _, _, _)
BisectLeft(a, x, lo, hi) ==
    IF lo < hi
    THEN LET mid == (lo + hi) \div 2
         IN  IF LtIntFloat(a[mid + 1], x) THEN BisectLeft(a, x, mid + 1, hi)
             ELSE BisectLeft(a, x, lo, mid)
    ELSE lo

\* bisect_left(bins, x) - 1
BucketIndex(b, x) == BisectLeft(b, x, 0, Len(b)) - 1

\* np.histogram(a, bins) with a sequence of edges: cum_n[i] is the number of
\* samples below edge i (searchsorted 'left'), for the last edge the number
\* of samples at or below it (searchsorted 'right'); the counts are the
\* differences.  Samples outside [bins[0], bins[-1]] are in no count.
CumN(a, b, i) ==
    IF i < Len(b)
    THEN Cardinality({j \in 1..Len(a) : LtFloatInt(a[j], b[i])})
    ELSE Cardinality({j \in 1..Len(a) : LeFloatInt(a[j], b[i])})

Histogram(a, b) ==
    [i \in 1..(Len(b) - 1) |-> CumN(a, b, i + 1) - CumN(a, b, i)]

\* an int array as the float operand of np.histogram
AsFloats(d) == [j \in 1..Len(d) |-> <<d[j], 1>>]

(***************************************************************************)
(* The chart.                                                              *)
(***************************************************************************)
\* '|\n' * k ("|" stands for the box-drawing character U+250A)
RECURSIVE Repeat(_, _)
Repeat(t, k) == IF k = 0 THEN <<>> ELSE t \o Repeat(t, k - 1)

\* the list given to ax.set_xticklabels; i counts the bars from 0
TickLabels(b, nbars) ==
    [i \in 1..nbars |->
        IF i < nbars
        THEN Repeat(<<"|", "\n">>, (i - 1) % 3) \o numfmt(b[i]) \o <<"~">>
                 \o numfmt(b[i + 1])
        ELSE numfmt(b[nbars]) \o <<"~">>]

(***************************************************************************)
(* The run.                                                                *)
(***************************************************************************)
Init ==
    /\ argv \in Argvs
    /\ input \in Inputs
    /\ pc = "start"
    /\ handle = "none"
    /\ pos = 0
    /\ data = <<>>
    /\ error = "none"
    /\ maxdatalog2 = 0
    /\ bins = <<>>
    /\ median = <<Zero, 1>>
    /\ mean = <<Zero, 1>>
    /\ bmedian = 0
    /\ bmean = 0
    /\ files = 0
    /\ total = Zero
    /\ hist = <<>>
    /\ ticklabels = <<>>
    /\ vlines = <<>>
    /\ fin = Zero
    /\ fout = <<>>

\* if len(sys.argv) < 2: print the usage, sys.exit(1)
Usage ==
    /\ pc = "start"
    /\ Len(argv) < 2
    /\ pc' = "exit1"
    /\ UNCHANGED <<argv, input, handle, pos, data, error, maxdatalog2, bins,
                   median, mean, bmedian, bmean, files, total, hist,
                   ticklabels, vlines, fin, fout>>

\* filename = sys.argv[1], '-' is /dev/stdin; open(filename)
Open ==
    /\ pc = "start"
    /\ Len(argv) >= 2
    /\ LET filename == IF argv[2] = "-" THEN "/dev/stdin" ELSE argv[2]
       IN  IF filename \in ExistingFiles
           THEN /\ handle' = "open"
                /\ pc' = "read"
                /\ error' = error
           ELSE /\ handle' = handle
                /\ pc' = "failed"
                /\ error' = "FileNotFoundError"
    /\ UNCHANGED <<argv, input, pos, data, maxdatalog2, bins, median, mean,
                   bmedian, bmean, files, total, hist, ticklabels, vlines,
                   fin, fout>>

\* one turn of [int(x.split(' ')[0]) for x in open(filename)]
ReadLine ==
    /\ pc = "read"
    /\ pos < Len(input)
    /\ LET r == ParseInt(FirstToken(input[pos + 1]))
       IN  IF r.ok
           THEN /\ data' = Append(data, r.val)
                /\ pos' = pos + 1
                /\ UNCHANGED <<pc, error, handle>>
           ELSE /\ pc' = "failed"
                /\ error' = "ValueError: invalid literal for int()"
                /\ handle' \in UnwoundHandle
                /\ UNCHANGED <<data, pos>>
    /\ UNCHANGED <<argv, input, maxdatalog2, bins, median, mean, bmedian,
                   bmean, files, total, hist, ticklabels, vlines, fin, fout>>

\* the end of the file: the list is complete, data = np.array(list); the
\* last reference to the file object goes with the comprehension and the
\* reference count finalises it
EndRead ==
    /\ pc = "read"
    /\ pos = Len(input)
    /\ pc' = "edges"
    /\ handle' = "closed"
    /\ UNCHANGED <<argv, input, pos, data, error, maxdatalog2, bins, median,
                   mean, bmedian, bmean, files, total, hist, ticklabels,
                   vlines, fin, fout>>

\* the uncaught exception ends the process: the traceback is printed and the
\* interpreter finalises the file object on its way out
Finalize ==
    /\ pc = "failed"
    /\ handle = "open"
    /\ handle' = "closed"
    /\ UNCHANGED <<argv, input, pc, pos, data, error, maxdatalog2, bins,
                   median, mean, bmedian, bmean, files, total, hist,
                   ticklabels, vlines, fin, fout>>

\* maxdatalog2 = min(ceil(log2(data.max())), 31); bins = [0,1,] + [...]
Edges ==
    /\ pc = "edges"
    /\ IF data = <<>>
       THEN /\ pc' = "failed"
            /\ error' = "ValueError: zero-size array"
            /\ UNCHANGED <<maxdatalog2, bins>>
       ELSE IF Le(MaxOf(data), Zero)
       THEN /\ pc' = "failed"
            /\ error' = "ValueError: math domain error"
            /\ UNCHANGED <<maxdatalog2, bins>>
       ELSE /\ maxdatalog2' = Min(CeilLog2(MaxOf(data)), cutlog2)
            /\ bins' = BinsOf(maxdatalog2')
            /\ pc' = "stats"
            /\ error' = error
    /\ UNCHANGED <<argv, input, handle, pos, data, median, mean, bmedian,
                   bmean, files, total, hist, ticklabels, vlines, fin, fout>>

\* median, mean, bmedian, bmean, files, total
Stats ==
    /\ pc = "stats"
    /\ median' = MedianOf(data)
    /\ mean' = MeanOf(data)
    /\ bmedian' = BucketIndex(bins, median')
    /\ bmean' = BucketIndex(bins, mean')
    /\ files' = Len(data)
    /\ total' = SumOf(data)
    /\ pc' = "hist"
    /\ UNCHANGED <<argv, input, handle, pos, data, error, maxdatalog2, bins,
                   hist, ticklabels, vlines, fin, fout>>

\* hist, bin_edges = np.histogram(data, bins)
Hist ==
    /\ pc = "hist"
    /\ hist' = Histogram(AsFloats(data), bins)
    /\ pc' = "render"
    /\ UNCHANGED <<argv, input, handle, pos, data, error, maxdatalog2, bins,
                   median, mean, bmedian, bmean, files, total, ticklabels,
                   vlines, fin, fout>>

\* ax.bar over range(len(hist)), the tick labels, ax.axvline(bmean) and
\* ax.axvline(bmedian), plt.show().  The ax.text annotations (numfmt of the
\* float mean, median and total, the count above each bar) add text to the
\* figure and are not kept.
Render ==
    /\ pc = "render"
    /\ ticklabels' = TickLabels(bins, Len(hist))
    /\ vlines' = <<bmean, bmedian>>
    /\ pc' = "shown"
    /\ UNCHANGED <<argv, input, handle, pos, data, error, maxdatalog2, bins,
                   median, mean, bmedian, bmean, files, total, hist, fin,
                   fout>>

Next ==
    \/ Usage
    \/ Open
    \/ ReadLine
    \/ EndRead
    \/ Finalize
    \/ Edges
    \/ Stats
    \/ Hist
    \/ Render

Spec == Init /\ [][Next]_vars

(***************************************************************************)
(* numfmt on its own: the formatter applied to one integer.                *)
(***************************************************************************)
\* a * 1024
Mul1024(a) ==
    <<a[1] * Kibi + (a[2] \div (Limb \div Kibi)), (a[2] % (Limb \div Kibi)) * Kibi>>

\* a * 1024^j
RECURSIVE Shift(_, _)
Shift(a, j) == IF j = 0 THEN a ELSE Shift(Mul1024(a), j - 1)

\* the integers given to numfmt: around the multiples c * 1024^j, up to 1024^6
FmtInputs ==
    LET near == {Add(Shift(Small(c), j), Small(d)) :
                     c \in (1..FmtMult) \cup {Kibi - 1}, j \in 0..5,
                     d \in (-FmtSpread)..FmtSpread}
        top  == {Add(Shift(Small(1), 6), Small(d)) : d \in (-FmtSpread)..FmtSpread}
    IN  {n \in near \cup top : Le(Zero, n)}

InitNumfmt ==
    /\ argv = <<"filesizehistogram.py">>
    /\ input = <<>>
    /\ pc = "numfmt"
    /\ handle = "none"
    /\ pos = 0
    /\ data = <<>>
    /\ error = "none"
    /\ maxdatalog2 = 0
    /\ bins = <<>>
    /\ median = <<Zero, 1>>
    /\ mean = <<Zero, 1>>
    /\ bmedian = 0
    /\ bmean = 0
    /\ files = 0
    /\ total = Zero
    /\ hist = <<>>
    /\ ticklabels = <<>>
    /\ vlines = <<>>
    /\ fin \in FmtInputs
    /\ fout = <<>>

\* fout = numfmt(fin)
NumfmtCall ==
    /\ pc = "numfmt"
    /\ fout' = numfmt(fin)
    /\ pc' = "numfmt_done"
    /\ UNCHANGED <<argv, input, handle, pos, data, error, maxdatalog2, bins,
                   median, mean, bmedian, bmean, files, total, hist,
                   ticklabels, vlines, fin>>

SpecNumfmt == InitNumfmt /\ [][NumfmtCall]_vars

(***************************************************************************)
(* Properties.                                                             *)
(***************************************************************************)
\* every sample read is a non-negative size
NonNegative(d) == \A j \in 1..Len(d) : Le(Zero, d[j])

RECURSIVE SumCounts(_)
SumCounts(h) == IF h = <<>> THEN 0 ELSE h[1] + SumCounts(Tail(h))

\* the bars (numbered from 1) in which a sample of value x is counted
CountedIn(x, b) == {i \in 1..(Len(b) - 1) : Histogram(<<x>>, b)[i] = 1}

Bucketed == pc \in {"render", "shown"}

\* C1: for a non-empty set of non-negative sizes the per-bucket counts sum to
\* the number of samples read, whatever the maximum is.
C1_CountsSumToSamples ==
    (Bucketed /\ NonNegative(data)) => SumCounts(hist) = Len(data)

\* C2: a sample equal to an edge of the edge sequence, the largest edge
\* included, is counted in the bucket whose lower bound is that edge.
C2_EdgeSampleStartsBucket ==
    Bucketed =>
        \A j \in 1..Len(data), i \in 1..Len(bins) :
            data[j] = bins[i] => CountedIn(<<data[j], 1>>, bins) = {i}

\* C3: the largest edge is 2^k with k = min(ceil(log2(max)), 31), and every
\* sample at or above 2^31 is counted in the one final bar, labelled "lo~".
\* Stated for the runs with a maximum above 16, where the edge sequence has a
\* power of two at all.
C3_CapAtTwoPow31 ==
    (Bucketed /\ NonNegative(data) /\ Lt(Small(16), MaxOf(data))) =>
        /\ bins[Len(bins)] = Pow2(Min(CeilLog2(MaxOf(data)), cutlog2))
        /\ \A j \in 1..Len(data) :
               Le(Pow2(cutlog2), data[j])
                   => CountedIn(<<data[j], 1>>, bins) = {Len(hist)}
        /\ pc = "shown" =>
               ticklabels[Len(hist)][Len(ticklabels[Len(hist)])] = "~"

\* every sample lies within the edges, so that each is in some count
WithinEdges == \A j \in 1..Len(data) : CountedIn(<<data[j], 1>>, bins) # {}

\* C4: the bucket index of the median and of the mean is the index of the
\* bucket in which a sample of that value is counted; a statistic equal to an
\* edge maps to the bucket starting at that edge.  Stated for the runs in
\* which every sample is counted.
C4_StatisticBucketIsSampleBucket ==
    (pc \in {"hist", "render", "shown"} /\ WithinEdges) =>
        /\ CountedIn(median, bins) = {bmedian + 1}
        /\ CountedIn(mean, bins) = {bmean + 1}

\* C5: for every maximum of a non-empty set of sizes the edge sequence has at
\* least 3 edges: 0, 1 and a power of two.
C5_AtLeastThreeEdges ==
    (pc \in {"stats", "hist", "render", "shown"} /\ NonNegative(data))
        => Len(bins) >= 3

\* C6: a run whose samples are all 0 reaches no error state.
C6_AllZeroRunsWithoutError ==
    (/\ pos = Len(input)
     /\ Len(data) >= 1
     /\ \A j \in 1..Len(data) : data[j] = Zero)
        => pc # "failed"

\* the largest m in 0..5 with 1024^m <= n, 0 when n < 1024
Magnitude(n) ==
    IF Lt(n, Small(Kibi)) THEN 0
    ELSE CHOOSE m \in 0..5 :
             /\ Le(Shift(Small(1), m), n)
             /\ m = 5 \/ Lt(n, Shift(Small(1), m + 1))

Suffixes == << <<>>, <<"K">>, <<"M">>, <<"G">>, <<"T">>, <<"P">> >>

\* the leading decimal digits of a string, and their value
RECURSIVE DigitPrefix(_)
DigitPrefix(t) ==
    IF t # <<>> /\ IsDigit(Head(t)) THEN <<Head(t)>> \o DigitPrefix(Tail(t))
    ELSE <<>>

RECURSIVE NatOf(_)
NatOf(ds) ==
    IF ds = <<>> THEN 0
    ELSE 10 * NatOf(SubSeq(ds, 1, Len(ds) - 1)) + DigitVal(ds[Len(ds)])

\* C7: for an integer n >= 0, numfmt(n) is the decimal rendering of
\* floor(n / 1024^m) followed by the m-th suffix of (none, K, M, G, T, P), m
\* the largest value in 0..5 with 1024^m <= n; 0 -> "0", 1023 -> "1023",
\* 1024 -> "1K", 1048576 -> "1M"; the number is below 1024 when n < 1024^6.
C7_NumfmtOfInteger ==
    pc = "numfmt_done" =>
        LET m  == Magnitude(fin)
            ds == DigitPrefix(fout)
            q  == NatOf(ds)
        IN  /\ ds # <<>>
            /\ Len(ds) > 1 => ds[1] # "0"
            /\ SubSeq(fout, Len(ds) + 1, Len(fout)) = Suffixes[m + 1]
            /\ Le(Shift(Small(q), m), fin)
            /\ Lt(fin, Shift(Small(q + 1), m))
            /\ Lt(fin, Shift(Small(1), 6)) => q < Kibi
            /\ fin = Zero => fout = <<"0">>
            /\ fin = Small(1023) => fout = <<"1", "0", "2", "3">>
            /\ fin = Small(1024) => fout = <<"1", "K">>
            /\ fin = Small(1048576) => fout = <<"1", "M">>

\* numfmt has formatted 1023 * 1024^5 + 1, five divisions, as "1023P"
C7_Witness ==
    /\ pc = "numfmt_done"
    /\ fin = Add(Shift(Small(Kibi - 1), 5), Small(1))
    /\ fout = <<"1", "0", "2", "3", "P">>

\* a first token that is a non-negative decimal integer
IsSizeToken(t) ==
    LET s == Strip(t)
    IN  s # <<>> /\ \A i \in 1..Len(s) : IsDigit(s[i])

\* C8: when some line's first token is not a non-negative integer the run
\* fails before any edge is computed; no negative value enters the samples.
C8_BadLineFailsTheRun ==
    /\ NonNegative(data)
    /\ (\E i \in 1..Len(input) : ~IsSizeToken(FirstToken(input[i])))
           => (pc \in {"start", "exit1", "read", "failed"} /\ bins = <<>>)

\* C9: no state after the read phase, successful or failed, has the input
\* handle still open.
C9_HandleReleasedAfterRead ==
    pc \notin {"start", "read"} => handle # "open"

\* C10: the positions of the mean and median markers are bar indices,
\* 0 .. number of bars - 1.
C10_MarkersOnBars ==
    pc = "shown" =>
        \A k \in 1..Len(vlines) : vlines[k] \in 0..(Len(hist) - 1)

=============================================================================
